---- MODULE Spec2Model ----
(***************************************************************************)
(* PyRigi: the (K, L)-pebble digraph (pyrigi/_pebble_digraph.py) and the   *)
(* brute-force sparsity predicates of Graph (pyrigi/graph.py).             *)
(*                                                                         *)
(* PebbleDiGraph is a networkx MultiDiGraph.  Its adjacency is modelled as *)
(* networkx stores it: for every tail the successors in dict insertion     *)
(* order (succ) and, per successor, the number of parallel keys (keys).    *)
(***************************************************************************)
EXTENDS Integers, Sequences, FiniteSets, TLC

\* ------------------------------------------------------------- bounds
NumVerts == 4
MaxFeeds == 3
MaxK == 2
MaxResets == 1
MaxRedundancy == 2
MaxEdges == 3

Verts == 0 .. (NumVerts - 1)
\* undirected supports {u, v}, u # v
Pairs == {e \in SUBSET Verts : Cardinality(e) = 2}

\* Python None for an int-valued attribute: the empty tuple; an int k is <<k>>
NoneVal == <<>>
Some(k) == <<k>>
IsInt(x) == x # NoneVal
Val(x) == x[1]

VARIABLES
    _K, _L,            \* self._K, self._L
    dg,                \* the MultiDiGraph: [node, succ, keys]
    pc,                \* "idle" | "loop" | "done"
    op,                \* the running public method
    cu, cv,            \* its arguments u, v
    visited_vertices,  \* fundamental_circuit's local of that name
    iterations,        \* passes through the while body in the running call
    circuit,           \* what the fundamental_circuit call returned or raised
    result,            \* what the method returned or raised
    pre,               \* the object as it was when the method was called
    fed,               \* bag of supports passed to add_edge_maintaining_digraph
    accepted,          \* bag of supports for which it returned True
    stale,             \* "yes": K or L got a new value while edges were
                       \* stored; "used": and an edge was accepted after that
    resets,            \* number of calls of set_K_and_L and of the setters
    G,                 \* a Graph: [nodes, edges], an edge is the set {u, v}
    query,             \* the last Graph method called, its arguments and value
    frame              \* the running stable-cut search: its function, its
                       \* arguments, the locals of _process, what it returned

vars == <<_K, _L, dg, pc, op, cu, cv, visited_vertices, iterations, circuit,
          result, pre, fed, accepted, stale, resets, G, query, frame>>

pebble_vars == <<_K, _L, dg, pc, op, cu, cv, visited_vertices, iterations,
                 circuit, result, pre, fed, accepted, stale, resets>>
graph_vars == <<G, query, frame>>

\* ------------------------------------------------- networkx MultiDiGraph
EmptyDiGraph ==
    [node |-> {},
     succ |-> [x \in Verts |-> <<>>],
     keys |-> [x \in Verts |-> [y \in Verts |-> 0]]]

has_node(g, x) == x \in g.node

RECURSIVE SumUpTo(_, _)
SumUpTo(f, n) == IF n < 0 THEN 0 ELSE f[n] + SumUpTo(f, n - 1)

out_degree(g, x) == SumUpTo(g.keys[x], NumVerts - 1)

in_degree(g, x) == SumUpTo([y \in Verts |-> g.keys[y][x]], NumVerts - 1)

number_of_edges(g) == SumUpTo([x \in Verts |-> out_degree(g, x)], NumVerts - 1)

\* MultiDiGraph.add_edge(t, h): new nodes are created, a new successor goes
\* to the end of t's adjacency dict, a parallel edge only gets a new key
nx_add_edge(g, t, h) ==
    [node |-> g.node \cup {t, h},
     succ |-> IF g.keys[t][h] > 0 THEN g.succ
              ELSE [g.succ EXCEPT ![t] = Append(@, h)],
     keys |-> [g.keys EXCEPT ![t][h] = @ + 1]]

\* MultiDiGraph.remove_edge(t, h) with key=None: pops the last key and drops
\* the successor entry when no key is left (caller guarantees an edge exists)
nx_remove_edge(g, t, h) ==
    [node |-> g.node,
     succ |-> IF g.keys[t][h] = 1
              THEN [g.succ EXCEPT ![t] = SelectSeq(@, LAMBDA y : y # h)]
              ELSE g.succ,
     keys |-> [g.keys EXCEPT ![t][h] = @ - 1]]

RECURSIVE Repeat(_, _)
Repeat(e, n) == IF n <= 0 THEN <<>> ELSE <<e>> \o Repeat(e, n - 1)

RECURSIVE out_edges_from(_, _, _)
out_edges_from(g, x, i) ==
    IF i > Len(g.succ[x]) THEN <<>>
    ELSE Repeat(<<x, g.succ[x][i]>>, g.keys[x][g.succ[x][i]])
            \o out_edges_from(g, x, i + 1)

\* self.out_edges(vertex): 2-tuples, successors in adjacency order, one per key
out_edges(g, x) == out_edges_from(g, x, 1)

\* ------------------------------------------------------ PebbleDiGraph
\* _check_K_and_L: the exception it raises, "none" when it returns
_check_K_and_L(k, l) ==
    IF ~(IsInt(k) /\ IsInt(l)) THEN "TypeError"
    ELSE IF 0 >= Val(k) THEN "ValueError"
    ELSE IF 0 > Val(l) THEN "ValueError"
    ELSE IF Val(l) >= 2 * Val(k) THEN "ValueError"
    ELSE "none"

\* mutant: the old edge is not removed
redirect_without_remove(g, edge, vertex_to) ==
    IF has_node(g, vertex_to) /\ (vertex_to = edge[1] \/ vertex_to = edge[2])
    THEN nx_add_edge(g, edge[2], vertex_to)
    ELSE g

\* mutant: the turned edge is not added
redirect_without_add(g, edge, vertex_to) ==
    IF has_node(g, vertex_to) /\ (vertex_to = edge[1] \/ vertex_to = edge[2])
    THEN nx_remove_edge(g, edge[1], edge[2])
    ELSE g

\* redirect_edge_to_head(edge, vertex_to)
redirect_edge_to_head(g, edge, vertex_to) ==
    IF has_node(g, vertex_to) /\ (vertex_to = edge[1] \/ vertex_to = edge[2])
    THEN nx_add_edge(nx_remove_edge(g, edge[1], edge[2]), edge[2], vertex_to)
    ELSE g

RECURSIVE turn_around(_, _, _)
\* mutant: the path that was found is not turned around
turn_around_nothing(g, edge_path, i) == g

\* "for edge in edge_path: self.redirect_edge_to_head(edge, edge[0])"
turn_around(g, edge_path, i) ==
    IF i > Len(edge_path) THEN g
    ELSE turn_around(redirect_edge_to_head(g, edge_path[i], edge_path[i][1]),
                     edge_path, i + 1)

NoEdge == <<>>

\* the nested dfs of fundamental_circuit; k, u, v are its free variables
\* self.K, u, v.  Returns found, visited, edge_path and the digraph, and
\* order: the vertices in the order in which dfs was entered for them.
RECURSIVE dfs(_, _, _, _, _, _, _, _)
RECURSIVE dfs_out_edges(_, _, _, _, _, _, _, _, _)
\* mutant: a vertex whose out-edges all fail leaves its edge on edge_path
dfs_out_edges_without_pop(g, k, u, v, vertex, visited, edge_path, oes, i) ==
    IF i > Len(oes)
    THEN [found |-> FALSE, visited |-> visited, edge_path |-> edge_path, g |-> g,
          order |-> <<>>]
    ELSE LET next_vertex == oes[i][2] IN
         IF next_vertex \notin visited
         THEN LET r == dfs(g, k, u, v, next_vertex, visited, edge_path, oes[i])
              IN  IF r.found THEN r
                  ELSE [dfs_out_edges(g, k, u, v, vertex, r.visited,
                                      r.edge_path, oes, i + 1)
                            EXCEPT !.order = r.order \o @]
         ELSE dfs_out_edges(g, k, u, v, vertex, visited, edge_path, oes, i + 1)

dfs(g, k, u, v, vertex, visited, edge_path, current_edge) ==
    LET vis == visited \cup {vertex}
        path == IF current_edge # NoEdge THEN Append(edge_path, current_edge)
                ELSE edge_path
    IN  IF vertex # u /\ vertex # v /\ out_degree(g, vertex) < k
        THEN [found |-> TRUE, visited |-> vis, edge_path |-> path,
              g |-> turn_around(g, path, 1), order |-> <<vertex>>]
        ELSE [dfs_out_edges(g, k, u, v, vertex, vis, path,
                            out_edges(g, vertex), 1)
                  EXCEPT !.order = <<vertex>> \o @]

\* "for out_edge in self.out_edges(vertex)" from its i-th edge on, and the
\* pop of edge_path after the loop
dfs_out_edges(g, k, u, v, vertex, visited, edge_path, oes, i) ==
    IF i > Len(oes)
    THEN [found |-> FALSE, visited |-> visited,
          edge_path |-> IF edge_path # <<>>
                        THEN SubSeq(edge_path, 1, Len(edge_path) - 1)
                        ELSE edge_path,
          g |-> g, order |-> <<>>]
    ELSE LET next_vertex == oes[i][2] IN
         IF next_vertex \notin visited
         THEN LET r == dfs(g, k, u, v, next_vertex, visited, edge_path, oes[i])
              IN  IF r.found THEN r
                  ELSE [dfs_out_edges(g, k, u, v, vertex, r.visited,
                                      r.edge_path, oes, i + 1)
                            EXCEPT !.order = r.order \o @]
         ELSE dfs_out_edges(g, k, u, v, vertex, visited, edge_path, oes, i + 1)

\* mutant: the bound is one too large
max_degree_off_by_one(k, l) == 2 * k - l

max_degree_u_v_together(k, l) == 2 * k - l - 1

\* mutant: only the search from v is run
while_body_from_v_only(g, k, u, v) ==
    LET from_v == dfs(g, k, u, v, v, {u, v}, <<>>, NoEdge) IN
    [found |-> from_v.found, g |-> from_v.g, visited |-> from_v.visited,
     order_u |-> <<>>, order_v |-> from_v.order]

\* mutant: only the search from u is run
while_body_from_u_only(g, k, u, v) ==
    LET from_u == dfs(g, k, u, v, u, {u, v}, <<>>, NoEdge) IN
    [found |-> from_u.found, g |-> from_u.g, visited |-> from_u.visited,
     order_u |-> from_u.order, order_v |-> <<>>]

\* mutant: the search from v starts with a new visited set
while_body_fresh_visited(g, k, u, v) ==
    LET from_u == dfs(g, k, u, v, u, {u, v}, <<>>, NoEdge) IN
    IF from_u.found
    THEN [found |-> TRUE, g |-> from_u.g, visited |-> from_u.visited,
          order_u |-> from_u.order, order_v |-> <<>>]
    ELSE LET from_v == dfs(g, k, u, v, v, {u, v}, <<>>, NoEdge) IN
         [found |-> from_v.found, g |-> from_v.g, visited |-> from_v.visited,
          order_u |-> from_u.order, order_v |-> from_v.order]

\* one pass through the body of fundamental_circuit's while loop; order_u
\* and order_v are the vertices the two searches entered, in order
while_body(g, k, u, v) ==
    LET from_u == dfs(g, k, u, v, u, {u, v}, <<>>, NoEdge) IN
    IF from_u.found
    THEN [found |-> TRUE, g |-> from_u.g, visited |-> from_u.visited,
          order_u |-> from_u.order, order_v |-> <<>>]
    ELSE LET from_v == dfs(g, k, u, v, v, from_u.visited, <<>>, NoEdge) IN
         [found |-> from_v.found, g |-> from_v.g, visited |-> from_v.visited,
          order_u |-> from_u.order, order_v |-> from_v.order]


\* ------------------------------------------------------ method results
NoResult == [tag |-> "pending", b |-> FALSE, s |-> {}, exc |-> "none"]
RetNone == [tag |-> "None", b |-> FALSE, s |-> {}, exc |-> "none"]
RetBool(x) == [tag |-> "bool", b |-> x, s |-> {}, exc |-> "none"]
RetSet(x) == [tag |-> "set", b |-> FALSE, s |-> x, exc |-> "none"]
Raise(e) == [tag |-> "raise", b |-> FALSE, s |-> {}, exc |-> e]

Self == [K |-> _K, L |-> _L, dg |-> dg]

EmptyBag == [e \in Pairs |-> 0]
BagAdd(bag, e) == [bag EXCEPT ![e] = @ + 1]
RECURSIVE BagSum(_, _)
BagSum(bag, S) ==
    IF S = {} THEN 0
    ELSE LET e == CHOOSE x \in S : TRUE IN bag[e] + BagSum(bag, S \ {e})
\* number of elements of the bag that lie in S
BagSize(bag, S) == BagSum(bag, {e \in S : bag[e] > 0})
Feeds == BagSize(fed, Pairs)
Resets == resets

\* bag of supports {tail, head} of the stored oriented edges (loops left out)
Supports(g) == [e \in Pairs |->
    LET x == CHOOSE a \in e : TRUE
        y == CHOOSE b \in e : b # x
    IN  g.keys[x][y] + g.keys[y][x]]
Loops(g) == SumUpTo([x \in Verts |-> g.keys[x][x]], NumVerts - 1)

\* ----------------------------------------------------------- actions
\* Vertices are opaque labels, so the arguments are taken up to renaming:
\* vertices that are not yet nodes are numbered in the order of first use.
Absent == Verts \ dg.node
Least(S) == CHOOSE x \in S : \A y \in S : x <= y
Args(u, v) ==
    /\ u # v
    /\ u \notin dg.node => u = Least(Absent)
    /\ v \notin dg.node => v = Least(Absent \ {u})

\* entry of fundamental_circuit(u, v), lines 207-213, shared by its callers
EnterCircuit(u, v) ==
    IF ~(IsInt(_K) /\ IsInt(_L))
    THEN /\ pc' = "done"
         /\ circuit' = Raise("TypeError")
         /\ result' = Raise("TypeError")
    ELSE IF ~has_node(dg, u) \/ ~has_node(dg, v)
    THEN /\ pc' = "done"
         /\ circuit' = Raise("ValueError")
         /\ result' = Raise("ValueError")
    ELSE /\ pc' = "loop"
         /\ circuit' = NoResult
         /\ result' = NoResult

\* add_edge_maintaining_digraph(u, v) up to its first step
add_edge_maintaining_digraph(u, v) ==
    /\ UNCHANGED graph_vars
    /\ pc = "idle"
    /\ Args(u, v)
    /\ Feeds < MaxFeeds
    /\ op' = "add_edge_maintaining_digraph"
    /\ cu' = u
    /\ cv' = v
    /\ pre' = Self
    /\ visited_vertices' = {}
    /\ iterations' = 0
    /\ IF ~has_node(dg, u)
       THEN /\ dg' = nx_add_edge(dg, u, v)
            /\ pc' = "done"
            /\ circuit' = NoResult
            /\ result' = RetBool(TRUE)
            /\ fed' = BagAdd(fed, {u, v})
            /\ accepted' = BagAdd(accepted, {u, v})
            /\ stale' = IF stale = "yes" THEN "used" ELSE stale
       ELSE IF ~has_node(dg, v)
       THEN /\ dg' = nx_add_edge(dg, v, u)
            /\ pc' = "done"
            /\ circuit' = NoResult
            /\ result' = RetBool(TRUE)
            /\ fed' = BagAdd(fed, {u, v})
            /\ accepted' = BagAdd(accepted, {u, v})
            /\ stale' = IF stale = "yes" THEN "used" ELSE stale
       ELSE /\ EnterCircuit(u, v)
            /\ UNCHANGED <<dg, fed, accepted, stale>>
    /\ UNCHANGED <<_K, _L, resets>>

can_add_edge_between_vertices(u, v) ==
    /\ UNCHANGED graph_vars
    /\ pc = "idle"
    /\ Args(u, v)
    /\ op' = "can_add_edge_between_vertices"
    /\ cu' = u
    /\ cv' = v
    /\ pre' = Self
    /\ visited_vertices' = {}
    /\ iterations' = 0
    /\ EnterCircuit(u, v)
    /\ UNCHANGED <<_K, _L, dg, fed, accepted, stale, resets>>

PairDegree == out_degree(dg, cu) + out_degree(dg, cv)
Threshold == max_degree_u_v_together(Val(_K), Val(_L))

\* an iteration of the while loop of fundamental_circuit (lines 215-235) in
\* which one of the two searches finds a pebble: "continue"
while_iteration ==
    /\ UNCHANGED graph_vars
    /\ pc = "loop"
    /\ PairDegree > Threshold
    /\ LET r == while_body(dg, Val(_K), cu, cv) IN
        /\ r.found
        /\ dg' = r.g
        /\ visited_vertices' = r.visited
        /\ iterations' = iterations + 1
    /\ UNCHANGED <<_K, _L, pc, op, cu, cv, circuit, result, pre, fed, accepted,
                   stale, resets>>

\* mutant: the pair of out-degrees is not looked at after the loop
circuit_value_always_none(g, k, l, u, v, visited) == RetNone

\* lines 237-244: None when the edge is independent, else the visited set
circuit_value(g, k, l, u, v, visited) ==
    IF out_degree(g, u) + out_degree(g, v) <= max_degree_u_v_together(k, l)
    THEN RetNone
    ELSE RetSet(visited)

\* mutant: the new edge always leaves u
oriented_insert_from_u(g, u, v) == nx_add_edge(g, u, v)

\* mutant: with equal out-degrees the new edge leaves u
oriented_insert_ties_from_u(g, u, v) ==
    IF out_degree(g, u) <= out_degree(g, v)
    THEN nx_add_edge(g, u, v)
    ELSE nx_add_edge(g, v, u)

\* lines 272-278: the orientation of an accepted edge
oriented_insert(g, u, v) ==
    IF out_degree(g, u) < out_degree(g, v)
    THEN nx_add_edge(g, u, v)
    ELSE nx_add_edge(g, v, u)

\* fundamental_circuit returns c to the running method, which finishes:
\* can_add_edge_between_vertices (line 250) or lines 273-280
finish(c) ==
    /\ UNCHANGED graph_vars
    /\ pc' = "done"
    /\ circuit' = c
    /\ IF op = "can_add_edge_between_vertices"
       THEN /\ result' = RetBool(c.tag = "None")
            /\ UNCHANGED <<dg, fed, accepted, stale>>
       ELSE IF c.tag = "None"
       THEN /\ dg' = oriented_insert(dg, cu, cv)
            /\ result' = RetBool(TRUE)
            /\ fed' = BagAdd(fed, {cu, cv})
            /\ accepted' = BagAdd(accepted, {cu, cv})
            /\ stale' = IF stale = "yes" THEN "used" ELSE stale
       ELSE /\ result' = RetBool(FALSE)
            /\ fed' = BagAdd(fed, {cu, cv})
            /\ UNCHANGED <<dg, accepted, stale>>
    /\ UNCHANGED <<_K, _L, op, cu, cv, pre, resets>>

\* the while condition is false: the loop is left and the method returns
while_exit ==
    /\ pc = "loop"
    /\ PairDegree <= Threshold
    /\ visited_vertices' = visited_vertices
    /\ iterations' = iterations
    /\ finish(circuit_value(dg, Val(_K), Val(_L), cu, cv, visited_vertices))

\* both searches fail: "break", and the method returns
while_break ==
    /\ pc = "loop"
    /\ PairDegree > Threshold
    /\ LET r == while_body(dg, Val(_K), cu, cv) IN
        /\ ~r.found
        /\ visited_vertices' = r.visited
        /\ iterations' = iterations + 1
        /\ finish(circuit_value(dg, Val(_K), Val(_L), cu, cv, r.visited))

\* fundamental_circuit(u, v) run to its return on present vertices u, v:
\* the digraph it leaves behind and the value it returns
RECURSIVE run_fundamental_circuit(_, _, _, _, _, _)
run_fundamental_circuit(g, k, l, u, v, visited) ==
    IF out_degree(g, u) + out_degree(g, v) > max_degree_u_v_together(k, l)
    THEN LET r == while_body(g, k, u, v) IN
         IF r.found
         THEN run_fundamental_circuit(r.g, k, l, u, v, r.visited)
         ELSE [g |-> r.g, value |-> circuit_value(r.g, k, l, u, v, r.visited)]
    ELSE [g |-> g, value |-> circuit_value(g, k, l, u, v, visited)]

\* mutant: the answer of can_add_edge_between_vertices is ignored
run_add_edge_always(g, k, l, u, v) ==
    IF ~has_node(g, u) THEN [g |-> nx_add_edge(g, u, v), value |-> TRUE]
    ELSE IF ~has_node(g, v) THEN [g |-> nx_add_edge(g, v, u), value |-> TRUE]
    ELSE LET c == run_fundamental_circuit(g, k, l, u, v, {}) IN
         [g |-> oriented_insert(c.g, u, v), value |-> TRUE]

\* add_edge_maintaining_digraph(u, v) run to its return (K, L integers)
run_add_edge(g, k, l, u, v) ==
    IF ~has_node(g, u) THEN [g |-> nx_add_edge(g, u, v), value |-> TRUE]
    ELSE IF ~has_node(g, v) THEN [g |-> nx_add_edge(g, v, u), value |-> TRUE]
    ELSE LET c == run_fundamental_circuit(g, k, l, u, v, {}) IN
         IF c.value.tag = "None"
         THEN [g |-> oriented_insert(c.g, u, v), value |-> TRUE]
         ELSE [g |-> c.g, value |-> FALSE]

\* add_edges_maintaining_digraph(edges) from the i-th edge on, run to its
\* return: the digraph it leaves and the bag of the edges it accepted
RECURSIVE run_add_edges(_, _, _, _, _, _)
run_add_edges(g, k, l, edges, i, acc) ==
    IF i > Len(edges) THEN [g |-> g, accepted |-> acc]
    ELSE LET r == run_add_edge(g, k, l, edges[i][1], edges[i][2]) IN
         run_add_edges(r.g, k, l, edges, i + 1,
                       IF r.value THEN BagAdd(acc, {edges[i][1], edges[i][2]})
                       ELSE acc)

\* the bag of the edges of a list
RECURSIVE BagOf(_, _)
BagOf(edges, i) ==
    IF i > Len(edges) THEN EmptyBag
    ELSE BagAdd(BagOf(edges, i + 1), {edges[i][1], edges[i][2]})

\* add_edges_maintaining_digraph(edges), called once on the new digraph
add_edges_maintaining_digraph(edges) ==
    /\ UNCHANGED graph_vars
    /\ pc = "idle"
    /\ fed = EmptyBag
    /\ pc' = "done"
    /\ op' = "add_edges_maintaining_digraph"
    /\ cu' = edges
    /\ cv' = 0
    /\ pre' = Self
    /\ visited_vertices' = {}
    /\ iterations' = 0
    /\ circuit' = NoResult
    /\ result' = RetNone
    /\ LET r == run_add_edges(dg, Val(_K), Val(_L), edges, 1, EmptyBag) IN
        /\ dg' = r.g
        /\ accepted' = r.accepted
    /\ fed' = BagOf(edges, 1)
    /\ UNCHANGED <<_K, _L, stale, resets>>


\* redirect_edge_to_head(edge, vertex_to) called on the object (lines
\* 151-155); remove_edge raises NetworkXError when no edge (tail, head) is
\* stored, before anything is changed
call_redirect_edge_to_head(edge, vertex_to) ==
    /\ UNCHANGED graph_vars
    /\ pc = "idle"
    /\ pc' = "done"
    /\ op' = "redirect_edge_to_head"
    /\ cu' = edge
    /\ cv' = vertex_to
    /\ pre' = Self
    /\ visited_vertices' = {}
    /\ iterations' = 0
    /\ circuit' = NoResult
    /\ IF /\ has_node(dg, vertex_to)
          /\ vertex_to \in {edge[1], edge[2]}
          /\ dg.keys[edge[1]][edge[2]] = 0
       THEN /\ result' = Raise("NetworkXError")
            /\ dg' = dg
       ELSE /\ result' = RetNone
            /\ dg' = redirect_edge_to_head(dg, edge, vertex_to)
    /\ UNCHANGED <<_K, _L, fed, accepted, stale, resets>>

\* ------------------------------------------- K and L: setters, set_K_and_L
KInputs == {NoneVal} \cup {Some(k) : k \in 0 .. MaxK}
LInputs == {NoneVal} \cup {Some(l) : l \in (0 - 1) .. (2 * MaxK)}

\* a method that checks (k, l) and then stores them
store_K_and_L(name, a, b, k, l) ==
    /\ UNCHANGED graph_vars
    /\ pc = "idle"
    /\ Resets < MaxResets
    /\ pc' = "done"
    /\ op' = name
    /\ cu' = a
    /\ cv' = b
    /\ pre' = Self
    /\ circuit' = NoResult
    /\ IF _check_K_and_L(k, l) = "none"
       THEN /\ _K' = k
            /\ _L' = l
            /\ result' = RetNone
            /\ stale' = IF number_of_edges(dg) > 0 /\ <<k, l>> # <<_K, _L>>
                        THEN "yes" ELSE stale
       ELSE /\ result' = Raise(_check_K_and_L(k, l))
            /\ UNCHANGED <<_K, _L, stale>>
    /\ resets' = resets + 1
    /\ UNCHANGED <<dg, visited_vertices, iterations, fed, accepted>>

set_K_and_L(k, l) == store_K_and_L("set_K_and_L", k, l, k, l)

\* "@K.setter": self._check_K_and_L(value, self._L); self._K = value
K_setter(value) == store_K_and_L("K", value, NoneVal, value, _L)

\* "@L.setter": self._check_K_and_L(self._K, value); self._L = value
L_setter(value) == store_K_and_L("L", value, NoneVal, _K, value)

\* control is back at the caller
return ==
    /\ UNCHANGED graph_vars
    /\ pc = "done"
    /\ op # "__init__" \/ result.tag # "raise"
    /\ pc' = "idle"
    /\ op' = "none"
    /\ cu' = 0
    /\ cv' = 0
    /\ visited_vertices' = {}
    /\ iterations' = 0
    /\ circuit' = NoResult
    /\ result' = NoResult
    /\ pre' = Self
    /\ UNCHANGED <<_K, _L, dg, fed, accepted, stale, resets>>

\* PebbleDiGraph(K, L) with K, L valid
ValidKL == {kl \in (1 .. MaxK) \X (0 .. (2 * MaxK - 1)) : kl[2] < 2 * kl[1]}

\* ------------------------------------------------------------- Graph
EmptyGraph == [nodes |-> {}, edges |-> {}]
\* a call of a Graph method: its name, its integer arguments, and what came
\* back: a Boolean (tag "bool"), a list of graphs ("list"), an int ("int")
\* or an exception ("raise")
Query(name, k, l, r) ==
    [op |-> name, K |-> k, L |-> l,
     tag |-> r.tag, value |-> r.value, list |-> r.list, int |-> r.int,
     exc |-> r.exc]
Bool(x) == [tag |-> "bool", value |-> x, list |-> <<>>, int |-> 0, exc |-> "none"]
List(x) == [tag |-> "list", value |-> FALSE, list |-> x, int |-> 0, exc |-> "none"]
IntV(x) == [tag |-> "int", value |-> FALSE, list |-> <<>>, int |-> x, exc |-> "none"]
Raises(e) == [tag |-> "raise", value |-> FALSE, list |-> <<>>, int |-> 0, exc |-> e]
NoQuery ==
    Query("none", 0, 0,
          [tag |-> "none", value |-> FALSE, list |-> <<>>, int |-> 0, exc |-> "none"])

\* Graph.from_vertices_and_edges for edges over the given vertices
from_vertices_and_edges(vertices, edges) == [nodes |-> vertices, edges |-> edges]

\* itertools.combinations(vertices, j), as sets
combinations(S, j) == {c \in SUBSET S : Cardinality(c) = j}

\* Graph.complete_graph(n), n >= 1
complete_graph(n) ==
    from_vertices_and_edges(0 .. (n - 1), combinations(0 .. (n - 1), 2))

\* nx.Graph.subgraph(vertex_set): the induced subgraph
subgraph(g, vertex_set) ==
    [nodes |-> g.nodes \cap vertex_set,
     edges |-> {e \in g.edges : e \subseteq vertex_set}]

\* Graph.is_sparse(K, L)
is_sparse(g, k, l) ==
    \A j \in k .. Cardinality(g.nodes) :
        \A vertex_set \in combinations(g.nodes, j) :
            LET h == subgraph(g, vertex_set) IN
            ~(Cardinality(h.edges) > k * Cardinality(h.nodes) - l)

\* Graph.is_tight(K, L)
is_tight(g, k, l) ==
    is_sparse(g, k, l) /\ Cardinality(g.edges) <= k * Cardinality(g.nodes) - l

KArgs == 1 .. MaxK
LArgs == 0 .. (2 * MaxK - 1)

call_is_sparse(k, l) ==
    /\ UNCHANGED <<pebble_vars, frame>>
    /\ query' = Query("is_sparse", k, l, Bool(is_sparse(G, k, l)))
    /\ UNCHANGED G

call_is_tight(k, l) ==
    /\ UNCHANGED <<pebble_vars, frame>>
    /\ query' = Query("is_tight", k, l, Bool(is_tight(G, k, l)))
    /\ UNCHANGED G

\* Graph.delete_vertex(vertex)
delete_vertex(vertex) ==
    /\ UNCHANGED <<pebble_vars, frame>>
    /\ vertex \in G.nodes
    /\ G' = [nodes |-> G.nodes \ {vertex},
             edges |-> {e \in G.edges : vertex \notin e}]
    /\ query' = NoQuery

\* nx.Graph.add_edge(u, v) between two vertices of the graph, as
\* graphDB.K33plusEdge uses it; an edge that is there already stays single
add_edge(u, v) ==
    /\ UNCHANGED <<pebble_vars, frame>>
    /\ u \in G.nodes
    /\ v \in G.nodes
    /\ u # v
    /\ G' = [G EXCEPT !.edges = @ \cup {{u, v}}]
    /\ query' = NoQuery

\* Graph.delete_edge(edge)
delete_edge(edge) ==
    /\ UNCHANGED <<pebble_vars, frame>>
    /\ edge \in G.edges
    /\ G' = [G EXCEPT !.edges = @ \ {edge}]
    /\ query' = NoQuery

\* --------------------------------------------------- Graph: rigidity
\* Graph.vertices(): the nodes in insertion order; the graphs here get
\* their vertices from range(n), so this is the increasing order
RECURSIVE vertices_of(_)
vertices_of(S) ==
    IF S = {} THEN <<>>
    ELSE LET m == CHOOSE x \in S : \A y \in S : x <= y
         IN  <<m>> \o vertices_of(S \ {m})
vertices(g) == vertices_of(g.nodes)

\* nx.Graph.edge_subgraph(edges): the kept edges and the vertices they touch
edge_subgraph(g, edges) == [nodes |-> UNION edges, edges |-> edges]

\* Graph.delete_vertices(vertices), Graph.delete_edges(edges) on a copy
delete_vertices(g, vertex_set) ==
    [nodes |-> g.nodes \ vertex_set,
     edges |-> {e \in g.edges : e \cap vertex_set = {}}]
delete_edges(g, edge_set) == [g EXCEPT !.edges = @ \ edge_set]

\* the search of is_rigid without the deficiency: any number of edges removed
is_rigid_any_size(g) ==
    \E edge_subset \in SUBSET g.edges :
        is_tight(edge_subgraph(g, g.edges \ edge_subset), 2, 3)

\* Graph.is_rigid(dim=2, combinatorial=True)
is_rigid(g) ==
    LET deficiency == -(2 * Cardinality(g.nodes) - 3) + Cardinality(g.edges) IN
    IF deficiency < 0 THEN FALSE
    ELSE \E edge_subset \in combinations(g.edges, deficiency) :
            is_tight(edge_subgraph(g, g.edges \ edge_subset), 2, 3)

\* Graph.is_minimally_rigid(dim=2, combinatorial=True)
is_minimally_rigid(g) == is_tight(g, 2, 3)

\* Graph.is_k_vertex_redundantly_rigid(k, dim=2)
is_k_vertex_redundantly_rigid(g, k) ==
    \A vertex_set \in combinations(g.nodes, k) :
        is_rigid(delete_vertices(g, vertex_set))

\* Graph.is_vertex_redundantly_rigid(dim=2)
is_vertex_redundantly_rigid(g) == is_k_vertex_redundantly_rigid(g, 1)

\* Graph.is_k_redundantly_rigid(k, dim=2)
is_k_redundantly_rigid(g, k) ==
    \A edge_set \in combinations(g.edges, k) :
        is_rigid(delete_edges(g, edge_set))

\* Graph.is_redundantly_rigid(dim=2)
is_redundantly_rigid(g) == is_k_redundantly_rigid(g, 1)

\* the vertices joined to a vertex of S by a path that avoids Cut
RECURSIVE reachable(_, _, _)
reachable(g, S, Cut) ==
    LET T == S \cup {y \in g.nodes \ Cut :
                        \E x \in S : {x, y} \in g.edges}
    IN  IF T = S THEN S ELSE reachable(g, T, Cut)

\* nx.is_connected of a graph with at least one node
is_connected(g) ==
    \E x \in g.nodes : reachable(g, {x}, {}) = g.nodes

\* G.degree(x): a loop counts twice
degree(g, x) ==
    Cardinality({e \in g.edges : x \in e /\ Cardinality(e) = 2})
    + (IF {x} \in g.edges THEN 2 ELSE 0)

Minimum(S) == CHOOSE m \in S : \A n \in S : m <= n

\* nx.local_node_connectivity(G, x, y) of two non-adjacent nodes: the least
\* number of other nodes whose removal separates them
local_node_connectivity(g, x, y) ==
    Minimum({Cardinality(Cut) : Cut \in
        {C \in SUBSET (g.nodes \ {x, y}) : y \notin reachable(g, {x}, C)}})

\* Graph.vertex_connectivity(): nx.node_connectivity(self), the least degree
\* lowered to the local connectivity of the non-adjacent pairs; the null
\* graph has no answer (-1 stands for NetworkXPointlessConcept)
vertex_connectivity(g) ==
    IF g.nodes = {} THEN -1
    ELSE IF ~is_connected(g) THEN 0
    ELSE Minimum({degree(g, x) : x \in g.nodes}
                 \cup {local_node_connectivity(g, e[1], e[2]) :
                        e \in {p \in g.nodes \X g.nodes :
                                 p[1] # p[2] /\ {p[1], p[2]} \notin g.edges}})

\* Graph.is_globally_rigid(dim=2)
is_globally_rigid(g) ==
    IF ~is_redundantly_rigid(g) THEN Bool(FALSE)
    ELSE IF vertex_connectivity(g) = -1 THEN Raises("NetworkXPointlessConcept")
    ELSE Bool(vertex_connectivity(g) >= 3)

\* Graph.is_isomorphic(graph): nx.is_isomorphic
is_isomorphic(g, h) ==
    /\ Cardinality(g.nodes) = Cardinality(h.nodes)
    /\ Cardinality(g.edges) = Cardinality(h.edges)
    /\ \E f \in [g.nodes -> h.nodes] :
          /\ \A x, y \in g.nodes : x # y => f[x] # f[y]
          /\ \A e \in g.edges : {f[x] : x \in e} \in h.edges

\* the de-duplication loop at the end of both subgraph listings: an entry
\* stays unless a later entry is isomorphic to it
clean_list(subgraphs) ==
    LET kept == {i \in 1 .. Len(subgraphs) :
                    ~\E j \in (i + 1) .. Len(subgraphs) :
                        is_isomorphic(subgraphs[i], subgraphs[j])}
        F[i \in 0 .. Len(subgraphs)] ==
            IF i = 0 THEN <<>>
            ELSE IF i \in kept THEN Append(F[i - 1], subgraphs[i])
            ELSE F[i - 1]
    IN  F[Len(subgraphs)]

\* the i-th tuple of combinations(self.vertices(), len(self.vertices()) - 1):
\* the tuples come in lexicographic order, so the i-th leaves out the i-th
\* vertex from the end
vertex_subset(g, i) ==
    g.nodes \ {vertices(g)[Cardinality(g.nodes) + 1 - i]}

\* Graph.maximal_rigid_subgraphs(dim=2)
RECURSIVE maximal_rigid_subgraphs(_)
RECURSIVE maximal_loop(_, _)
maximal_loop(g, i) ==
    IF i = 0 THEN <<>>
    ELSE maximal_loop(g, i - 1)
         \o maximal_rigid_subgraphs(subgraph(g, vertex_subset(g, i)))
maximal_rigid_subgraphs(g) ==
    IF Cardinality(g.nodes) <= 2 THEN <<>>
    ELSE IF is_rigid(g) THEN <<g>>
    ELSE clean_list(maximal_loop(g, Cardinality(g.nodes)))

\* Graph.minimal_rigid_subgraphs(dim=2)
RECURSIVE minimal_rigid_subgraphs(_)
RECURSIVE minimal_loop(_, _)
\* the loop of minimal_rigid_subgraphs recording a subgraph without asking
\* whether it is rigid
minimal_loop_unchecked(g, i) ==
    IF i = 0 THEN <<>>
    ELSE LET sub == subgraph(g, vertex_subset(g, i))
             subgraphs == minimal_rigid_subgraphs(sub)
         IN  IF Len(subgraphs) = 0
             THEN Append(minimal_loop(g, i - 1), sub)
             ELSE minimal_loop(g, i - 1) \o subgraphs
minimal_loop(g, i) ==
    IF i = 0 THEN <<>>
    ELSE LET sub == subgraph(g, vertex_subset(g, i))
             subgraphs == minimal_rigid_subgraphs(sub)
         IN  IF Len(subgraphs) = 0 /\ is_rigid(sub)
             THEN Append(minimal_loop(g, i - 1), sub)
             ELSE minimal_loop(g, i - 1) \o subgraphs
minimal_rigid_subgraphs(g) ==
    IF Cardinality(g.nodes) <= 2 THEN <<>>
    ELSE IF Cardinality(g.nodes) = 3 /\ is_rigid(g) THEN <<g>>
    ELSE IF Cardinality(g.nodes) = 3 THEN <<>>
    ELSE clean_list(minimal_loop(g, Cardinality(g.nodes)))

\* the rows of the upper triangle of the adjacency matrix, the diagonal left
\* out, one after the other
upper_diag(g) ==
    LET vs == vertices(g)
        n == Len(vs)
        row(i) == [j \in 1 .. (n - i) |->
                      IF {vs[i], vs[i + j]} \in g.edges THEN 1 ELSE 0]
        F[i \in 0 .. n] == IF i = 0 THEN <<>> ELSE F[i - 1] \o row(i)
    IN  F[n]

\* int(bits, 2) of a non-empty string of binary digits
int_base_2(bits) ==
    LET F[i \in 0 .. Len(bits)] == IF i = 0 THEN 0 ELSE 2 * F[i - 1] + bits[i]
    IN  F[Len(bits)]

\* Graph.graph_to_int(): int('', 2) raises ValueError
graph_to_int(g) ==
    IF Len(upper_diag(g)) = 0 THEN Raises("ValueError")
    ELSE IntV(int_base_2(upper_diag(g)))

\* Graph.from_int: declared without a parameter for the integer, so a call
\* with one raises TypeError; its body raises NotImplementedError
from_int(n) == Raises("TypeError")

\* calls of the methods that leave the graph as it is
call_is_rigid ==
    /\ UNCHANGED <<pebble_vars, frame>>
    /\ UNCHANGED G
    /\ query' = Query("is_rigid", 0, 0,
                      Bool(is_rigid(G)))

call_is_minimally_rigid ==
    /\ UNCHANGED <<pebble_vars, frame>>
    /\ UNCHANGED G
    /\ query' = Query("is_minimally_rigid", 0, 0,
                      Bool(is_minimally_rigid(G)))

call_is_redundantly_rigid ==
    /\ UNCHANGED <<pebble_vars, frame>>
    /\ UNCHANGED G
    /\ query' = Query("is_redundantly_rigid", 0, 0,
                      Bool(is_redundantly_rigid(G)))

call_is_vertex_redundantly_rigid ==
    /\ UNCHANGED <<pebble_vars, frame>>
    /\ UNCHANGED G
    /\ query' = Query("is_vertex_redundantly_rigid", 0, 0,
                      Bool(is_vertex_redundantly_rigid(G)))

call_is_k_redundantly_rigid(k) ==
    /\ UNCHANGED <<pebble_vars, frame>>
    /\ UNCHANGED G
    /\ query' = Query("is_k_redundantly_rigid", k, 0,
                      Bool(is_k_redundantly_rigid(G, k)))

call_is_k_vertex_redundantly_rigid(k) ==
    /\ UNCHANGED <<pebble_vars, frame>>
    /\ UNCHANGED G
    /\ query' = Query("is_k_vertex_redundantly_rigid", k, 0,
                      Bool(is_k_vertex_redundantly_rigid(G, k)))

call_is_globally_rigid ==
    /\ UNCHANGED <<pebble_vars, frame>>
    /\ UNCHANGED G
    /\ query' = Query("is_globally_rigid", 0, 0,
                      is_globally_rigid(G))

call_maximal_rigid_subgraphs ==
    /\ UNCHANGED <<pebble_vars, frame>>
    /\ UNCHANGED G
    /\ query' = Query("maximal_rigid_subgraphs", 0, 0,
                      List(maximal_rigid_subgraphs(G)))

call_minimal_rigid_subgraphs ==
    /\ UNCHANGED <<pebble_vars, frame>>
    /\ UNCHANGED G
    /\ query' = Query("minimal_rigid_subgraphs", 0, 0,
                      List(minimal_rigid_subgraphs(G)))

call_graph_to_int ==
    /\ UNCHANGED <<pebble_vars, frame>>
    /\ UNCHANGED G
    /\ query' = Query("graph_to_int", 0, 0,
                      graph_to_int(G))

\* Graph.from_int(G.graph_to_int())
call_from_int ==
    /\ graph_to_int(G).tag = "int"
    /\ UNCHANGED <<pebble_vars, frame>>
    /\ UNCHANGED G
    /\ query' = Query("from_int", graph_to_int(G).int, 0,
                      from_int(graph_to_int(G).int))

\* ------------------------------------- stablecut/flexible_graphs.py
\* nx.Graph.neighbors(x)
neighbors(g, x) == {n \in g.nodes : {x, n} \in g.edges}

\* nx.Graph.remove_node(x): the node goes, and its edges with it
remove_node(g, x) ==
    [nodes |-> g.nodes \ {x}, edges |-> {e \in g.edges : x \notin e}]

\* nx.Graph.add_node(x)
add_node(g, x) == [g EXCEPT !.nodes = @ \cup {x}]

\* "for n in S: graph.add_edge(x, n)": an endpoint that is no node becomes one
add_edges_at(g, x, S) ==
    [nodes |-> g.nodes \cup S \cup (IF S = {} THEN {} ELSE {x}),
     edges |-> g.edges \cup {{x, n} : n \in S}]

\* "for n in S: graph.remove_edge(x, n)"; nx raises when an edge is not there
remove_edges_at(g, x, S) == [g EXCEPT !.edges = @ \ {{x, n} : n \in S}]
remove_edges_raises(g, x, S) == \E n \in S : {x, n} \notin g.edges

\* _process.contract(graph, u, x)
contract(g, u, x) ==
    LET u_neigh == neighbors(g, u)
        x_neigh == neighbors(g, x)
    IN  [graph |-> add_edges_at(remove_node(g, x), u, x_neigh \ {u}),
         u_neigh |-> u_neigh,
         x_neigh |-> x_neigh]

\* restore taking away every edge that contract put at u, also the ones u
\* had before
restore_every_edge(g, u, x, u_neigh, x_neigh) ==
    add_edges_at(add_node(remove_edges_at(g, u, x_neigh \ {u}), x),
                 x, x_neigh)

\* _process.restore(graph, u, x, u_neigh, x_neigh)
restore(g, u, x, u_neigh, x_neigh) ==
    add_edges_at(add_node(remove_edges_at(g, u, (x_neigh \ u_neigh) \ {u}), x),
                 x, x_neigh)

\* stablecut.types.StableCut(a, b, cut), and the other ways a call ends
StableCut(a, b, cut) ==
    [tag |-> "StableCut", a |-> a, b |-> b, cut |-> cut, exc |-> "none"]
ReturnsNone == [tag |-> "None", a |-> {}, b |-> {}, cut |-> {}, exc |-> "none"]
Raised(e) == [tag |-> "raise", a |-> {}, b |-> {}, cut |-> {}, exc |-> e]
Running == [tag |-> "none", a |-> {}, b |-> {}, cut |-> {}, exc |-> "none"]

\* stablecut.util.stable_set_violation(graph, S): None when no two vertices
\* of S are adjacent, else two adjacent vertices of S.  Which two, and in
\* which order, is not fixed here: these are the values it can return.
stable_set_violation(g, S) ==
    {pq \in S \X S : {pq[1], pq[2]} \in g.edges}

\* F with e added stays independent in the rigidity matroid of the plane:
\* no vertex set T around e spans more than 2|T| - 3 of the edges (Laman)
independent_with(F, e) ==
    \A T \in SUBSET ((UNION F) \ e) :
        Cardinality({f \in F : f \subseteq T \cup e}) + 1
            <= 2 * Cardinality(T \cup e) - 3

\* a maximal independent subset of the edges, grown one edge at a time
RECURSIVE independent_edges(_, _)
independent_edges(todo, F) ==
    IF todo = {} THEN F
    ELSE LET e == CHOOSE f \in todo : TRUE IN
         independent_edges(todo \ {e},
                           IF independent_with(F, e) THEN F \cup {e} ELSE F)

\* the edges among S span a rigid framework in the plane: one vertex, or
\* edges of rank 2|S| - 3
rigid_on(g, S) ==
    \/ Cardinality(S) = 1
    \/ /\ Cardinality(S) >= 2
       /\ Cardinality({e \in g.edges : e \subseteq S})
              >= 2 * Cardinality(S) - 3
       /\ Cardinality(independent_edges({e \in g.edges : e \subseteq S}, {}))
              = 2 * Cardinality(S) - 3

\* Graph.rigid_components(): the vertex sets of the maximal rigid subgraphs
rigid_components(g) ==
    LET rigid == {S \in SUBSET g.nodes : S # {} /\ rigid_on(g, S)}
    IN  {S \in rigid : \A T \in rigid : S \subseteq T => S = T}

\* nx.connected_components(graph)
connected_components(g) == {reachable(g, {x}, {}) : x \in g.nodes}

\* _find_and_validate_u_and_v(graph, u, v): "None", "v" when a vertex comes
\* back, "StopIteration" when next() finds no vertex outside disallowed
_find_and_validate_u_and_v(g, u, v) ==
    LET components == rigid_components(g)
        disallowed == UNION {c \in components : u \in c}
    IN  IF Cardinality(components) < 2 THEN "None"
        ELSE IF IsInt(v)
             THEN (IF Val(v) \in disallowed THEN "None" ELSE "v")
             ELSE (IF g.nodes \subseteq disallowed THEN "StopIteration"
                   ELSE "v")

\* no stable-cut search is running
NoFrame ==
    [pc |-> "idle", fn |-> "none", input |-> EmptyGraph,
     u |-> NoneVal, v |-> NoneVal, check |-> TRUE,
     violation |-> <<>>, x |-> NoneVal, u_neigh |-> {}, x_neigh |-> {},
     before |-> EmptyGraph, rigid_components |-> {},
     contracted |-> {}, restored |-> {},
     ret |-> Running]

\* the arguments a caller can pass for u or v: None or a node ("assert u in
\* graph", "assert v in graph")
OptionalVerts == {NoneVal} \cup {Some(x) : x \in Verts}
OptionalNodes(g) == {NoneVal} \cup {Some(x) : x \in g.nodes}
\* Vertices are opaque labels and the graphs come with every labelling, so
\* a vertex passed as u is taken to be the first node
CallArgs(u, v) ==
    /\ u \in OptionalNodes(G)
    /\ v \in OptionalNodes(G)
    /\ IsInt(u) => Val(u) = Least(G.nodes)

\* the call ends with value r
Ends(fn, u, v, check, r) ==
    [NoFrame EXCEPT !.pc = "returned", !.fn = fn, !.input = G,
                    !.u = u, !.v = v, !.check = check, !.ret = r]
\* the call goes on to _process(graph, u, v)
Processes(fn, u, v, check) ==
    [NoFrame EXCEPT !.pc = "process", !.fn = fn, !.input = G,
                    !.u = u, !.v = v, !.check = check]

\* stable_cut_in_flexible_graph_fast(graph, u, v, copy=True,
\* check_rigid_components) from "if u is None and v is not None" on, for
\* the caller fn; next(graph.nodes()) is next() of a NodeView, a TypeError
fast_body(fn, u0, v0, check) ==
    LET swap == ~IsInt(u0) /\ IsInt(v0)
        u == IF swap THEN v0 ELSE u0
        v == IF swap THEN u0 ELSE v0
        validated == _find_and_validate_u_and_v(G, Val(u), v)
    IN  IF ~IsInt(u)
        THEN frame' = Ends(fn, u, v, check, Raised("TypeError")) /\ G' = G
        ELSE IF ~(check \/ IsInt(v))
        THEN frame' = Ends(fn, u, v, check, Raised("AssertionError")) /\ G' = G
        ELSE IF check /\ validated = "None"
        THEN frame' = Ends(fn, u, v, check, ReturnsNone) /\ G' = G
        ELSE IF check /\ validated = "StopIteration"
        THEN frame' = Ends(fn, u, v, check, Raised("StopIteration")) /\ G' = G
        ELSE frame' = Processes(fn, u, v, check) /\ G' = G

\* stable_cut_in_flexible_graph_fast(graph, u, v, copy=True,
\* check_rigid_components)
stable_cut_in_flexible_graph_fast(u, v, check) ==
    /\ UNCHANGED <<pebble_vars, query>>
    /\ frame.pc = "idle"
    /\ CallArgs(u, v)
    /\ IF Cardinality(G.nodes) <= 1
       THEN /\ frame' = Ends("stable_cut_in_flexible_graph_fast", u, v, check,
                             ReturnsNone)
            /\ G' = G
       ELSE fast_body("stable_cut_in_flexible_graph_fast", u, v, check)

\* stable_cut_in_flexible_graph(graph, u, v, copy=True).  np.argmin of a map
\* object is 0, so connected_components[0] stays the component of the first
\* node; next(iter(...)) of that set is any of its vertices.
stable_cut_in_flexible_graph(u0, v0) ==
    LET fn == "stable_cut_in_flexible_graph"
        swap == ~IsInt(u0) /\ IsInt(v0)
        u1 == IF swap THEN v0 ELSE u0
        v == IF swap THEN u0 ELSE v0
    IN
    /\ UNCHANGED <<pebble_vars, query>>
    /\ frame.pc = "idle"
    /\ CallArgs(u0, v0)
    /\ IF Cardinality(G.nodes) <= 1
       THEN frame' = Ends(fn, u0, v0, TRUE, ReturnsNone) /\ G' = G
       ELSE
       \E first \in reachable(G, {Least(G.nodes)}, {}) :
         LET u == IF IsInt(u1) THEN u1 ELSE Some(first)
             u_component == reachable(G, {Val(u)}, {})
             other == G.nodes \ u_component
         IN
         /\ ~IsInt(u1) \/ first = Least(G.nodes)
         /\ IF Cardinality(connected_components(G)) = 1
            THEN fast_body(fn, u, v, TRUE)
            ELSE IF ~IsInt(v) \/ Val(v) \notin u_component
            THEN /\ frame' = Ends(fn, u, v, TRUE,
                                  StableCut(u_component, other, {}))
                 /\ G' = G
            ELSE IF _find_and_validate_u_and_v(subgraph(G, u_component),
                                               Val(u), v) = "None"
            THEN frame' = Ends(fn, u, v, TRUE, ReturnsNone) /\ G' = G
            \* cut = _process(graph, u, v) on the component of u; the
            \* StableCut built from cut and the other components on the
            \* next line is dropped, and cut is what is returned
            ELSE /\ frame' = Processes(fn, u, v, TRUE)
                 /\ G' = subgraph(G, u_component)

\* _process returning the neighbours of u as the cut whether or not two of
\* them are adjacent
_process_unchecked ==
    /\ UNCHANGED <<pebble_vars, query, G>>
    /\ frame.pc = "process"
    /\ LET u == Val(frame.u)
           neiborhood == neighbors(G, u)
       IN  frame' = [frame EXCEPT
               !.pc = "returned",
               !.ret = StableCut(neiborhood \cup {u}, G.nodes \ {u},
                                 neiborhood)]

\* _process(graph, u, v) up to the loop over the violation
_process ==
    /\ UNCHANGED <<pebble_vars, query, G>>
    /\ frame.pc = "process"
    /\ LET u == Val(frame.u)
           neiborhood == neighbors(G, u)
       IN  IF stable_set_violation(G, neiborhood) = {}
           THEN frame' = [frame EXCEPT
                   !.pc = "returned",
                   !.ret = StableCut(neiborhood \cup {u}, G.nodes \ {u},
                                     neiborhood)]
           ELSE \E violation \in stable_set_violation(G, neiborhood) :
                   frame' = [frame EXCEPT !.pc = "candidates",
                                          !.violation = violation]

\* "for x in violation": contract(graph, u, x), the assert after it, and
\* rigid_components = graph.rigid_components()
contract_candidate ==
    /\ UNCHANGED <<pebble_vars, query>>
    /\ frame.pc = "candidates"
    /\ frame.violation # <<>>
    /\ LET x == Head(frame.violation)
           c == contract(G, Val(frame.u), x)
       IN  /\ G' = c.graph
           /\ frame' = [frame EXCEPT
                 !.pc = IF Cardinality(c.graph.nodes) < Cardinality(G.nodes)
                        THEN "contracted" ELSE "returned",
                 !.ret = IF Cardinality(c.graph.nodes) < Cardinality(G.nodes)
                         THEN Running ELSE Raised("AssertionError"),
                 !.violation = Tail(@),
                 !.x = Some(x),
                 !.u_neigh = c.u_neigh,
                 !.x_neigh = c.x_neigh,
                 !.rigid_components = rigid_components(c.graph),
                 !.before = G]

\* a rigid component of the contracted graph holds both v and u
problem_found ==
    \E c2 \in frame.rigid_components :
        /\ IsInt(frame.v)
        /\ Val(frame.v) \in c2
        /\ Val(frame.u) \in c2

\* problem_found: restore(graph, u, x, u_neigh, x_neigh) and continue
restore_candidate ==
    /\ UNCHANGED <<pebble_vars, query>>
    /\ frame.pc = "contracted"
    /\ problem_found
    /\ LET u == Val(frame.u)
           x == Val(frame.x)
       IN  IF remove_edges_raises(G, u, (frame.x_neigh \ frame.u_neigh) \ {u})
           THEN /\ frame' = [frame EXCEPT !.pc = "returned",
                                          !.ret = Raised("NetworkXError")]
                /\ G' = G
           ELSE /\ G' = restore(G, u, x, frame.u_neigh, frame.x_neigh)
                /\ frame' = [frame EXCEPT !.pc = "candidates",
                                          !.restored = @ \cup {x}]

\* no problem found: return _process(graph, u, v) on the contracted graph
process_contracted ==
    /\ UNCHANGED <<pebble_vars, query, G>>
    /\ frame.pc = "contracted"
    /\ ~problem_found
    /\ frame' = [frame EXCEPT !.pc = "process",
                              !.contracted = @ \cup {Val(frame.x)},
                              !.restored = {}]

\* the loop ran out of candidates: raise RuntimeError
not_maximal ==
    /\ UNCHANGED <<pebble_vars, query, G>>
    /\ frame.pc = "candidates"
    /\ frame.violation = <<>>
    /\ frame' = [frame EXCEPT !.pc = "returned",
                              !.ret = Raised("RuntimeError")]

\* ------------------------------------------------------ specifications
\* a PebbleDiGraph just constructed with parameters k, l
Constructed(k, l) ==
    /\ _K = k
    /\ _L = l
    /\ dg = EmptyDiGraph
    /\ pc = "idle"
    /\ op = "none"
    /\ cu = 0
    /\ cv = 0
    /\ visited_vertices = {}
    /\ iterations = 0
    /\ circuit = NoResult
    /\ result = NoResult
    /\ pre = [K |-> k, L |-> l, dg |-> EmptyDiGraph]
    /\ fed = EmptyBag
    /\ accepted = EmptyBag
    /\ stale = "no"
    /\ resets = 0

NoGraph ==
    /\ G = EmptyGraph
    /\ query = NoQuery
    /\ frame = NoFrame

Init ==
    /\ \E kl \in ValidKL : Constructed(Some(kl[1]), Some(kl[2]))
    /\ NoGraph

Next ==
    \/ \E u, v \in Verts : add_edge_maintaining_digraph(u, v)
    \/ \E u, v \in Verts : can_add_edge_between_vertices(u, v)
    \/ while_iteration
    \/ while_exit
    \/ while_break
    \/ return

Spec == Init /\ [][Next]_vars

\* a step of a call that is inside the while loop of fundamental_circuit
LoopStep == while_iteration \/ while_exit \/ while_break

\* A call that has entered fundamental_circuit keeps running: the interpreter
\* executes the next pass of the loop, or leaves it.  This is weak fairness
\* of LoopStep, WF_vars(LoopStep), written out as
\*     []<>~(ENABLED <<LoopStep>>_vars) \/ []<><<LoopStep>>_vars
\* with ENABLED <<LoopStep>>_vars replaced by its value pc = "loop": in the
\* loop the while condition is either false (while_exit) or true, and then
\* one of the searches succeeds (while_iteration) or none does (while_break).
SpecFair == Spec /\ ([]<>(pc # "loop") \/ []<><<LoopStep>>_vars)

\* a complete graph; every other graph comes from it by deletions
InitGraph ==
    /\ Constructed(NoneVal, NoneVal)
    /\ \E n \in 1 .. NumVerts : G = complete_graph(n)
    /\ query = NoQuery
    /\ frame = NoFrame

NextGraph ==
    \/ \E k \in KArgs, l \in LArgs : call_is_sparse(k, l)
    \/ \E k \in KArgs, l \in LArgs : call_is_tight(k, l)
    \/ \E vertex \in Verts : delete_vertex(vertex)
    \/ \E edge \in Pairs : delete_edge(edge)

SpecGraph == InitGraph /\ [][NextGraph]_vars

\* the edges a graph on the given vertices can get from
\* from_vertices_and_edges: pairs of vertices, and pairs (v, v)
PairsOn(V) == {e \in SUBSET V : Cardinality(e) = 2}
LoopsOn(V) == {{v} : v \in V}

\* Graph.from_vertices_and_edges(vertices, edges) with any edges, loops too
InitRigidity ==
    /\ Constructed(NoneVal, NoneVal)
    /\ \E V \in SUBSET Verts :
          \E edges \in SUBSET (PairsOn(V) \cup LoopsOn(V)) :
              G = from_vertices_and_edges(V, edges)
    /\ query = NoQuery
    /\ frame = NoFrame

NextRigidity ==
    \/ call_is_rigid
    \/ call_is_minimally_rigid
    \/ call_is_redundantly_rigid
    \/ call_is_vertex_redundantly_rigid
    \/ \E k \in 0 .. MaxRedundancy : call_is_k_redundantly_rigid(k)
    \/ \E k \in 0 .. MaxRedundancy : call_is_k_vertex_redundantly_rigid(k)
    \/ call_is_globally_rigid
    \/ call_maximal_rigid_subgraphs
    \/ call_minimal_rigid_subgraphs
    \/ call_graph_to_int
    \/ call_from_int

SpecRigidity == InitRigidity /\ [][NextRigidity]_vars

\* the graph of test_min_max_rigid_subgraphs, "a" and "b" written 6 and 7:
\* K_{3,3} on 0..5 and a triangle on 0, "a", "b"
TestGraph ==
    from_vertices_and_edges(0 .. 7,
        {{0, 1}, {1, 2}, {2, 3}, {3, 4}, {4, 5}, {5, 0}, {0, 3}, {1, 4},
         {2, 5}, {0, 6}, {0, 7}, {6, 7}})

\* any loop-free graph on the small vertex sets, or the test's graph
InitSubgraphs ==
    /\ Constructed(NoneVal, NoneVal)
    /\ \/ \E V \in SUBSET Verts : \E edges \in SUBSET PairsOn(V) :
              G = from_vertices_and_edges(V, edges)
       \/ G = TestGraph
    /\ query = NoQuery
    /\ frame = NoFrame

NextSubgraphs ==
    \/ \E vertex \in Verts \cup TestGraph.nodes : delete_vertex(vertex)
    \/ call_is_rigid
    \/ call_minimal_rigid_subgraphs
    \/ call_maximal_rigid_subgraphs

SpecSubgraphs == InitSubgraphs /\ [][NextSubgraphs]_vars

\* graphDB.Octahedral(): the skeleton of an octahedron
Octahedral ==
    from_vertices_and_edges(0 .. 5,
        {{0, 2}, {0, 3}, {0, 4}, {0, 5}, {1, 2}, {1, 3}, {1, 4}, {1, 5},
         {2, 4}, {2, 5}, {3, 4}, {3, 5}})

\* the octahedron; adding and deleting edges and deleting vertices lead from
\* it to every loop-free graph on vertices among its six
InitOctahedral ==
    /\ Constructed(NoneVal, NoneVal)
    /\ G = Octahedral
    /\ query = NoQuery
    /\ frame = NoFrame

NextOctahedral ==
    \/ \E u, v \in Octahedral.nodes : add_edge(u, v)
    \/ \E edge \in PairsOn(Octahedral.nodes) : delete_edge(edge)
    \/ \E vertex \in Octahedral.nodes : delete_vertex(vertex)
    \/ call_is_rigid

SpecOctahedral == InitOctahedral /\ [][NextOctahedral]_vars

\* graphDB.DiamondWithZeroExtension(): the diamond and a vertex joined to
\* its two spikes
DiamondWithZeroExtension ==
    from_vertices_and_edges(0 .. 4,
        {{0, 1}, {1, 2}, {2, 3}, {3, 0}, {0, 2}, {1, 4}, {3, 4}})

\* from it, every loop-free graph on vertices among its five
InitDiamond ==
    /\ Constructed(NoneVal, NoneVal)
    /\ G = DiamondWithZeroExtension
    /\ query = NoQuery
    /\ frame = NoFrame

NextDiamond ==
    \/ \E u, v \in DiamondWithZeroExtension.nodes : add_edge(u, v)
    \/ \E edge \in PairsOn(DiamondWithZeroExtension.nodes) : delete_edge(edge)
    \/ \E vertex \in DiamondWithZeroExtension.nodes : delete_vertex(vertex)
    \/ call_maximal_rigid_subgraphs

SpecDiamond == InitDiamond /\ [][NextDiamond]_vars

\* PebbleDiGraph(K, L) with any arguments: __init__ lines 23-30.  When the
\* check raises there is no object, and nothing can be called on it.
InitKL ==
    /\ \E k \in KInputs, l \in LInputs :
        /\ cu = k
        /\ cv = l
        /\ IF IsInt(k) /\ IsInt(l) /\ _check_K_and_L(k, l) # "none"
           THEN /\ result = Raise(_check_K_and_L(k, l))
                /\ _K = NoneVal
                /\ _L = NoneVal
           ELSE /\ result = RetNone
                /\ _K = k
                /\ _L = l
    /\ dg = EmptyDiGraph
    /\ pc = "done"
    /\ op = "__init__"
    /\ visited_vertices = {}
    /\ iterations = 0
    /\ circuit = NoResult
    /\ pre = [K |-> NoneVal, L |-> NoneVal, dg |-> EmptyDiGraph]
    /\ fed = EmptyBag
    /\ accepted = EmptyBag
    /\ stale = "no"
    /\ resets = 0
    /\ NoGraph

NextKL ==
    \/ Next
    \/ \E k \in KInputs, l \in LInputs : set_K_and_L(k, l)
    \/ \E value \in KInputs : K_setter(value)
    \/ \E value \in LInputs : L_setter(value)

SpecKL == InitKL /\ [][NextKL]_vars

\* a PebbleDiGraph constructed with valid K, L whose K and L are reassigned
SpecReset == Init /\ [][NextKL]_vars


\* the edge lists of Diamond() and Complete(4), and a list that names an edge
\* twice: the digraph is a multigraph and stores both copies
DoubledEdges == <<<<0, 1>>, <<0, 1>>, <<1, 2>>, <<0, 3>>, <<2, 3>>>>
DiamondEdges == <<<<0, 1>>, <<1, 2>>, <<2, 3>>, <<3, 0>>, <<0, 2>>>>
Complete4Edges == <<<<0, 1>>, <<0, 2>>, <<0, 3>>, <<1, 2>>, <<1, 3>>, <<2, 3>>>>

\* a PebbleDiGraph that is fed the edges of a graph of the catalogue in one
\* call, and is then asked about pairs of its vertices
NextStream ==
    \/ \E edges \in {DiamondEdges, Complete4Edges, DoubledEdges} :
          add_edges_maintaining_digraph(edges)
    \/ \E u, v \in Verts : can_add_edge_between_vertices(u, v)
    \/ while_iteration
    \/ while_exit
    \/ while_break
    \/ return

SpecStream == Init /\ [][NextStream]_vars

\* a PebbleDiGraph on which redirect_edge_to_head is called as well
NextRedirect ==
    \/ Next
    \/ \E edge \in Verts \X Verts, vertex_to \in Verts :
          call_redirect_edge_to_head(edge, vertex_to)

SpecRedirect == Init /\ [][NextRedirect]_vars


\* the tuples (u, v) an edge of a list can be
EdgeTuples == {e \in Verts \X Verts : e[1] # e[2]}

\* the vertices of a list are numbered in the order of their first use, as
\* in Args
RECURSIVE InOrderOfFirstUse(_, _, _)
InOrderOfFirstUse(edges, i, seen) ==
    IF i > Len(edges) THEN TRUE
    ELSE LET u == edges[i][1]
             v == edges[i][2]
         IN  /\ u \notin seen => u = Least(Verts \ seen)
             /\ v \notin seen => v = Least(Verts \ (seen \cup {u}))
             /\ InOrderOfFirstUse(edges, i + 1, seen \cup {u, v})

\* the lists of at most MaxEdges distinct undirected edges
EdgeLists ==
    UNION {{edges \in [1 .. n -> EdgeTuples] :
               /\ \A i, j \in 1 .. n :
                     {edges[i][1], edges[i][2]} = {edges[j][1], edges[j][2]}
                         => i = j
               /\ InOrderOfFirstUse(edges, 1, {})} : n \in 0 .. MaxEdges}

\* a new PebbleDiGraph(K, L) that is fed one list of distinct edges
NextLists ==
    \/ \E edges \in EdgeLists : add_edges_maintaining_digraph(edges)
    \/ return

SpecLists == Init /\ [][NextLists]_vars

\* ----------------------------------------------------- stable cuts
\* any loop-free graph on range(n), and no search running
InitCut ==
    /\ Constructed(NoneVal, NoneVal)
    /\ \E n \in 0 .. NumVerts : \E edges \in SUBSET PairsOn(0 .. (n - 1)) :
          G = from_vertices_and_edges(0 .. (n - 1), edges)
    /\ query = NoQuery
    /\ frame = NoFrame

NextCut ==
    \/ \E u, v \in OptionalVerts : stable_cut_in_flexible_graph(u, v)
    \/ \E u, v \in OptionalVerts, check \in BOOLEAN :
          stable_cut_in_flexible_graph_fast(u, v, check)
    \/ _process
    \/ contract_candidate
    \/ restore_candidate
    \/ process_contracted
    \/ not_maximal

SpecCut == InitCut /\ [][NextCut]_vars


\* ================================================================ claims
KV == Val(_K)
LV == Val(_L)

\* number of edges of the bag with both ends in S
Spanned(bag, S) == BagSize(bag, {e \in Pairs : e \subseteq S})

\* (K, L)-sparse: every set of at least two vertices spans at most K|S| - L
\* edges (on graphs without parallel edges the same as Graph.is_sparse)
KLSparse(bag, k, l) ==
    \A S \in SUBSET Verts :
        Cardinality(S) >= 2 => Spanned(bag, S) <= k * Cardinality(S) - l

KLTightSet(bag, k, l, S) == Spanned(bag, S) = k * Cardinality(S) - l

Distinct == \A e \in Pairs : fed[e] <= 1

AddReturned ==
    pc = "done" /\ op = "add_edge_maintaining_digraph" /\ result.tag = "bool"

\* the accepted edges when the running call began
AcceptedBefore ==
    IF AddReturned /\ result.b
    THEN [accepted EXCEPT ![{cu, cv}] = @ - 1]
    ELSE accepted

\* C1: add_edge_maintaining_digraph(u, v) returns True iff the accepted
\* edges together with {u, v} are (K, L)-sparse, and the accepted edges are
\* a maximal (K, L)-sparse subset of the edges fed so far (fed and accepted
\* change only when a call returns, so they are read outside the while loop).
C1_AcceptIffSparse ==
    /\ AddReturned =>
         (result.b <=> KLSparse(BagAdd(AcceptedBefore, {cu, cv}), KV, LV))
    /\ pc # "loop" =>
         /\ KLSparse(accepted, KV, LV)
         /\ \A e \in Pairs :
              fed[e] > accepted[e] => ~KLSparse(BagAdd(accepted, e), KV, LV)

\* a stream of distinct edges in which an edge between present vertices was
\* rejected
C1_Witness ==
    /\ AddReturned
    /\ Distinct
    /\ ~result.b
    /\ {cu, cv} \subseteq pre.dg.node

\* the Graph of the edges fed so far
FedGraph ==
    from_vertices_and_edges(UNION {e \in Pairs : fed[e] > 0},
                            {e \in Pairs : fed[e] > 0})

\* C2: feeding the edges of a simple graph in any order, all of them are
\* accepted (number_of_edges() = |E|) iff Graph.is_sparse(K, L) is True
\* (read whenever no call is inside its while loop).
C2_AllAcceptedIffIsSparse ==
    (Distinct /\ pc # "loop") =>
        (number_of_edges(dg) = Feeds <=> is_sparse(FedGraph, KV, LV))

C2_Witness ==
    /\ Distinct
    /\ pc = "idle"
    /\ Feeds >= 3
    /\ number_of_edges(dg) < Feeds
    /\ ~is_sparse(FedGraph, KV, LV)

\* C3: invariant I1, out_degree(v) <= K for every vertex, in every state,
\* the states between two passes of the while loop included.
C3_PebbleCount == \A x \in Verts : out_degree(dg, x) <= KV

\* a path was turned around and the loop is still running
C3_Witness ==
    /\ pc = "loop"
    /\ dg.keys # pre.dg.keys
    /\ \E x \in Verts : out_degree(dg, x) = KV

\* C4: the supports of the stored edges are the accepted edges, as bags,
\* in every state (so no path reversal changes a support), without loops.
C4_Supports == Supports(dg) = accepted /\ Loops(dg) = 0

C4_Witness ==
    /\ pc = "loop"
    /\ dg.keys # pre.dg.keys
    /\ number_of_edges(dg) >= 2

ProbedOrRejected ==
    /\ pc = "done"
    /\ \/ op = "can_add_edge_between_vertices"
       \/ AddReturned /\ ~result.b

\* C5 as claimed: a rejected add_edge_maintaining_digraph and every probe
\* leave the vertex set and the bag of oriented edges as they were.
C5_Unchanged ==
    ProbedOrRejected => dg.node = pre.dg.node /\ dg.keys = pre.dg.keys

\* C5 amended: they leave the vertex set and the bag of supports as they
\* were (edges may have been turned around).
C5_SupportsUnchanged ==
    ProbedOrRejected =>
        /\ dg.node = pre.dg.node
        /\ Supports(dg) = Supports(pre.dg)
        /\ Loops(dg) = 0
        /\ _K = pre.K /\ _L = pre.L

C5_Witness == ProbedOrRejected /\ dg.keys # pre.dg.keys

CanReturned == pc = "done" /\ op = "can_add_edge_between_vertices"

\* C6 as claimed: can_add_edge_between_vertices(u, v) returns the Boolean
\* that add_edge_maintaining_digraph(u, v) returns from the same state.
C6_CanEqualsAdd ==
    CanReturned =>
        result = RetBool(run_add_edge(pre.dg, KV, LV, cu, cv).value)

\* C6 amended: it does so when u and v are vertices of the digraph, and
\* raises ValueError when one is not (add_edge_maintaining_digraph then
\* returns True).
C6_CanEqualsAddOnNodes ==
    CanReturned =>
        IF {cu, cv} \subseteq pre.dg.node
        THEN result = RetBool(run_add_edge(pre.dg, KV, LV, cu, cv).value)
        ELSE /\ result = Raise("ValueError")
             /\ run_add_edge(pre.dg, KV, LV, cu, cv).value

C6_Witness ==
    /\ CanReturned
    /\ {cu, cv} \subseteq pre.dg.node
    /\ result = RetBool(FALSE)

\* C7: on present vertices fundamental_circuit(u, v) returns None iff the
\* accepted edges with {u, v} are (K, L)-sparse, and else the smallest
\* vertex set with u and v that spans exactly K|S| - L accepted edges.
C7_FundamentalCircuit ==
    (pc = "done" /\ circuit.tag \in {"None", "set"}) =>
        /\ circuit.tag = "None"
             <=> KLSparse(BagAdd(AcceptedBefore, {cu, cv}), KV, LV)
        /\ circuit.tag = "set" =>
             /\ {cu, cv} \subseteq circuit.s
             /\ KLTightSet(AcceptedBefore, KV, LV, circuit.s)
             /\ \A S \in SUBSET Verts :
                  ({cu, cv} \subseteq S /\ KLTightSet(AcceptedBefore, KV, LV, S))
                      => circuit.s \subseteq S

\* a circuit with a vertex besides u and v
C7_Witness ==
    /\ pc = "done"
    /\ circuit.tag = "set"
    /\ Cardinality(circuit.s) >= 3


\* C8 as claimed: once K or L got new values while edges were stored, no
\* edge is accepted on top of the old ones, and out_degree(v) <= K holds
\* for the new K.
C8_Invalidated ==
    /\ stale # "used"
    /\ (stale = "yes" /\ IsInt(_K)) => \A x \in Verts : out_degree(dg, x) <= KV

\* values that violate K >= 1 and 0 <= L < 2K (None: not given)
Violating(k, l) ==
    \/ IsInt(k) /\ Val(k) < 1
    \/ IsInt(l) /\ Val(l) < 0
    \/ IsInt(k) /\ IsInt(l) /\ Val(l) >= 2 * Val(k)

\* the pair (K, L) the finished method was asked to store
AskedK == IF op = "L" THEN pre.K ELSE cu
AskedL == IF op = "K" THEN pre.L ELSE IF op = "L" THEN cu ELSE cv

\* C9 as claimed: every attempt to store violating parameters raises and
\* changes nothing, so an existing PebbleDiGraph never stores them.
C9_ParametersValid ==
    /\ (pc = "done" /\ op \in {"__init__", "set_K_and_L", "K", "L"}
            /\ Violating(AskedK, AskedL))
         => /\ result.tag = "raise"
            /\ _K = pre.K /\ _L = pre.L /\ dg = pre.dg
    /\ ~(op = "__init__" /\ result.tag = "raise") => ~Violating(_K, _L)

\* C10 as claimed: is_tight(K, L) is True iff the graph is (K, L)-sparse
\* and has exactly K|V| - L edges.
C10_TightIffSparseAndExact ==
    query.op = "is_tight" =>
        (query.value <=>
            /\ is_sparse(G, query.K, query.L)
            /\ Cardinality(G.edges) = query.K * Cardinality(G.nodes) - query.L)

\* a spanning subgraph on all the vertices that is (2, 3)-sparse and has
\* exactly 2|V| - 3 edges
TightSpanningSubgraph(g) ==
    \E F \in SUBSET g.edges :
        /\ Cardinality(F) = 2 * Cardinality(g.nodes) - 3
        /\ \A S \in SUBSET g.nodes :
              Cardinality(S) >= 2 =>
                  Cardinality({e \in F : e \subseteq S})
                      <= 2 * Cardinality(S) - 3

\* C11: on a loop-free simple graph is_rigid(dim=2, combinatorial=True) is
\* True iff the graph has a (2, 3)-tight spanning subgraph on all of its
\* vertices, isolated vertices included.
C11_RigidIffTightSpanning ==
    query.op = "is_rigid" => (query.value <=> TightSpanningSubgraph(G))

\* is_rigid was asked about a graph with more than 2|V| - 3 edges one of
\* whose vertices loses all its edges when that many are left out
C11_Witness ==
    /\ query.op = "is_rigid"
    /\ Cardinality(G.edges) > 2 * Cardinality(G.nodes) - 3
    /\ \E x \in G.nodes :
          degree(G, x) <= Cardinality(G.edges) - (2 * Cardinality(G.nodes) - 3)

RigidityPredicates ==
    {"is_rigid", "is_minimally_rigid", "is_redundantly_rigid",
     "is_vertex_redundantly_rigid", "is_k_redundantly_rigid",
     "is_k_vertex_redundantly_rigid", "is_globally_rigid",
     "maximal_rigid_subgraphs", "minimal_rigid_subgraphs"}

HasLoop(g) == \E e \in g.edges : Cardinality(e) = 1

\* C12 as claimed: on a graph with a self-loop every rigidity predicate
\* fails with the loop error and returns neither a Boolean nor a list.
C12_LoopGuard ==
    (query.op \in RigidityPredicates /\ HasLoop(G)) =>
        (query.tag = "raise" /\ query.exc = "LoopError")

\* C13 as claimed: is_globally_rigid(dim=2) is True on every complete graph
\* K_n, n >= 2.
C13_CompleteGloballyRigid ==
    (query.op = "is_globally_rigid"
        /\ \E n \in 2 .. NumVerts : G = complete_graph(n)) =>
        (query.tag = "bool" /\ query.value)

\* C14 as claimed: every graph returned by maximal_rigid_subgraphs is a
\* vertex-induced subgraph with at least 3 vertices that is rigid, and no
\* rigid vertex-induced subgraph has a properly larger vertex set.
C14_MaximalRigidSubgraphs ==
    query.op = "maximal_rigid_subgraphs" =>
        \A i \in 1 .. Len(query.list) :
            LET H == query.list[i] IN
            /\ H = subgraph(G, H.nodes)
            /\ Cardinality(H.nodes) >= 3
            /\ is_rigid(H)
            /\ \A S \in SUBSET G.nodes :
                  (H.nodes \subseteq S /\ S # H.nodes)
                      => ~is_rigid(subgraph(G, S))

\* C15: every graph returned by minimal_rigid_subgraphs is a vertex-induced
\* subgraph with at least 3 vertices that is rigid, and none of its induced
\* subgraphs on a proper subset of at least 3 of its vertices is rigid.
C15_MinimalRigidSubgraphs ==
    query.op = "minimal_rigid_subgraphs" =>
        \A i \in 1 .. Len(query.list) :
            LET H == query.list[i] IN
            /\ H = subgraph(G, H.nodes)
            /\ Cardinality(H.nodes) >= 3
            /\ is_rigid(H)
            /\ \A S \in SUBSET H.nodes :
                  (S # H.nodes /\ Cardinality(S) >= 3)
                      => ~is_rigid(subgraph(H, S))

\* a minimal rigid subgraph that is not a triangle was listed
C15_Witness ==
    /\ query.op = "minimal_rigid_subgraphs"
    /\ \E i \in 1 .. Len(query.list) : Cardinality(query.list[i].nodes) > 3

\* C16 as claimed: for a simple graph on 0 .. n-1 with at least one edge,
\* from_int(graph_to_int(G)) is a graph with the same integer that is
\* isomorphic to G.
C16_IntegerRoundTrip ==
    (/\ query.op = "from_int"
     /\ G.edges # {}
     /\ ~HasLoop(G)
     /\ \E n \in 1 .. NumVerts : G.nodes = 0 .. (n - 1)) =>
        /\ query.tag = "list"
        /\ Len(query.list) = 1
        /\ graph_to_int(query.list[1]) = graph_to_int(G)
        /\ is_isomorphic(query.list[1], G)

\* the step in which add_edge_maintaining_digraph inserts the accepted edge:
\* from "idle" on the bootstrap path, from the while loop otherwise
InsertStep ==
    /\ pc # "done"
    /\ pc' = "done"
    /\ op' = "add_edge_maintaining_digraph"
    /\ result'.tag = "bool"
    /\ result'.b

\* the step adds one edge with tail t and head h and nothing else
InsertedAs(t, h) == dg'.keys = [dg.keys EXCEPT ![t][h] = @ + 1]

\* C17 as claimed: an edge accepted between two present vertices leaves the
\* endpoint with the smaller out-degree after the search; with equal
\* out-degrees it leaves u.
C17_Orientation ==
    [][(InsertStep /\ pc = "loop") =>
        IF out_degree(dg, cv) < out_degree(dg, cu)
        THEN InsertedAs(cv, cu)
        ELSE InsertedAs(cu, cv)]_vars

\* C17 amended: as claimed, but with equal out-degrees the edge leaves v
\* (tail v, head u).
C17_OrientationTiesFromV ==
    [][(InsertStep /\ pc = "loop") =>
        IF out_degree(dg, cu) < out_degree(dg, cv)
        THEN InsertedAs(cu, cv)
        ELSE InsertedAs(cv, cu)]_vars

\* the first edge between u and v was accepted with both present and with
\* equal out-degrees, and it leaves v
C17_Witness ==
    /\ AddReturned
    /\ result.b
    /\ {cu, cv} \subseteq pre.dg.node
    /\ dg.keys[cv][cu] = 1
    /\ dg.keys[cu][cv] = 0
    /\ out_degree(dg, cv) - 1 = out_degree(dg, cu)

\* C18 as claimed: whenever the edge is inserted, on the bootstrap path too,
\* out_degree(u) + out_degree(v) <= 2K - L - 1 just before the insertion.
C18_PairBound ==
    [][InsertStep =>
        out_degree(dg, cu') + out_degree(dg, cv') <= 2 * KV - LV - 1]_vars

\* C18 amended: the bound holds when both endpoints are present; on the
\* bootstrap path the absent endpoint has out-degree 0 and the present one
\* at most K.
C18_PairBoundWhenPresent ==
    [][InsertStep =>
        IF pc = "loop"
        THEN out_degree(dg, cu) + out_degree(dg, cv) <= 2 * KV - LV - 1
        ELSE /\ \E x \in {cu', cv'} : ~has_node(dg, x) /\ out_degree(dg, x) = 0
             /\ out_degree(dg, cu') + out_degree(dg, cv') <= KV]_vars

\* an edge between present vertices was accepted after the search had to
\* bring the pair under the bound
C18_Witness ==
    /\ AddReturned
    /\ result.b
    /\ {cu, cv} \subseteq pre.dg.node
    /\ out_degree(pre.dg, cu) + out_degree(pre.dg, cv) > 2 * KV - LV - 1

\* the oriented edges, counted with their keys, that a step turns around
Reversed == {e \in Verts \X Verts : dg'.keys[e[1]][e[2]] < dg.keys[e[1]][e[2]]}

\* the vertices reached from S along edges of D
RECURSIVE ReachedAlong(_, _)
ReachedAlong(D, S) ==
    LET T == S \cup {e[2] : e \in {d \in D : d[1] \in S}}
    IN  IF T = S THEN S ELSE ReachedAlong(D, T)

\* D is the edge set of one directed path from s to w
IsPath(D, s, w) ==
    /\ D # {}
    /\ \A d, e \in D : (d[1] = e[1] \/ d[2] = e[2]) => d = e
    /\ \A d \in D : d[2] # s /\ d[1] # w
    /\ w \in ReachedAlong(D, {s})
    /\ Cardinality(ReachedAlong(D, {s})) = Cardinality(D) + 1

\* C19: a pass of the while loop in which a search succeeds turns around
\* exactly the edges of one directed path from s in {u, v} to a vertex w
\* outside {u, v} with out_degree(w) < K: s loses one out-edge, w gains one,
\* every other out-degree stays, and no other edge changes.
C19_PathReversal ==
    [][(pc = "loop" /\ pc' = "loop") =>
        \E s \in {cu, cv}, w \in dg.node \ {cu, cv} :
            /\ out_degree(dg, w) < KV
            /\ IsPath(Reversed, s, w)
            /\ \A x, y \in Verts :
                  dg'.keys[x][y] = dg.keys[x][y]
                      - (IF <<x, y>> \in Reversed THEN 1 ELSE 0)
                      + (IF <<y, x>> \in Reversed THEN 1 ELSE 0)
            /\ out_degree(dg', s) = out_degree(dg, s) - 1
            /\ out_degree(dg', w) = out_degree(dg, w) + 1
            /\ \A x \in Verts \ {s, w} : out_degree(dg', x) = out_degree(dg, x)
            /\ dg'.node = dg.node]_vars

\* the first pass of a call has turned around a path from u (v keeps its
\* out-edges, so the search from v was not run) after that search had gone
\* into a vertex x and come back: x is visited and none of its edges changed
C19_Witness ==
    /\ pc = "loop"
    /\ out_degree(dg, cu) = out_degree(pre.dg, cu) - 1
    /\ out_degree(dg, cv) = out_degree(pre.dg, cv)
    /\ \E x \in visited_vertices \ {cu, cv} :
          \A y \in Verts : /\ dg.keys[x][y] = pre.dg.keys[x][y]
                           /\ dg.keys[y][x] = pre.dg.keys[y][x]

\* redirect_edge_to_head(edge, vertex_to) has returned; edge = (tail, head)
\* was a stored edge between two vertices
RedirectReturned ==
    /\ pc = "done"
    /\ op = "redirect_edge_to_head"
    /\ cu[1] # cu[2]
    /\ pre.dg.keys[cu[1]][cu[2]] > 0

\* C20: after redirect_edge_to_head(edge, vertex_to) on a stored edge, if
\* vertex_to is a vertex of the digraph and an endpoint of the edge then the
\* supports of the stored edges are what they were, no loop has appeared,
\* the edge points to vertex_to, and nothing at all has changed when
\* vertex_to was the head already; otherwise the digraph is unchanged.
C20_RedirectKeepsSupport ==
    RedirectReturned =>
        LET tail == cu[1]
            head == cu[2]
            other == IF cv = head THEN tail ELSE head
        IN  IF has_node(pre.dg, cv) /\ cv \in {tail, head}
            THEN /\ Supports(dg) = Supports(pre.dg)
                 /\ Loops(dg) = Loops(pre.dg)
                 /\ dg.keys[other][cv] > 0
                 /\ cv = head => dg = pre.dg
                 /\ cv = tail =>
                       /\ dg.keys[tail][head] = pre.dg.keys[tail][head] - 1
                       /\ dg.keys[head][tail] = pre.dg.keys[head][tail] + 1
            ELSE dg = pre.dg

\* a sequence without repetitions
NoRepeats(seq) == \A i, j \in 1 .. Len(seq) : seq[i] = seq[j] => i = j

\* the pair of out-degrees when the running call began
PairDegreeAtCall == out_degree(pre.dg, cu) + out_degree(pre.dg, cv)

\* a step that is one pass through the while body of fundamental_circuit(u, v)
\* either leaves the loop, and then both searches had failed, or lowers
\* out_degree(u) + out_degree(v) by exactly 1 and keeps the vertices, the
\* supports of the stored edges and the accepted edges; neither search enters
\* a vertex twice; and the passes of a call never outnumber the pair of
\* out-degrees the call began with
LoopPasses ==
    [][(pc = "loop" /\ PairDegree > Threshold) =>
        LET r == while_body(dg, KV, cu, cv) IN
        /\ pc' = "done" <=> ~r.found
        /\ pc' # "done" =>
              /\ pc' = "loop"
              /\ PairDegree' = PairDegree - 1
              /\ dg'.node = dg.node
              /\ Supports(dg') = Supports(dg)
              /\ Loops(dg') = Loops(dg)
              /\ accepted' = accepted
              /\ fed' = fed
        /\ NoRepeats(r.order_u)
        /\ NoRepeats(r.order_v)
        /\ iterations' = iterations + 1
        /\ iterations' <= PairDegreeAtCall]_vars

\* C21: fundamental_circuit(u, v) terminates: every pass of its while loop
\* ends the loop or lowers out_degree(u) + out_degree(v) by exactly 1 without
\* changing the accepted edges, each search visits a vertex at most once, at
\* most out_degree(u) + out_degree(v) passes run, and a call that is in the
\* loop returns.
C21_Terminates == LoopPasses /\ ((pc = "loop") ~> (pc = "done"))

\* a call has returned after as many passes as the pair of out-degrees it
\* began with, at least two, the last of which visited every vertex
C21_Witness ==
    /\ pc = "done"
    /\ op \in {"add_edge_maintaining_digraph", "can_add_edge_between_vertices"}
    /\ iterations >= 2
    /\ iterations = PairDegreeAtCall
    /\ Cardinality(visited_vertices) >= 3

\* add_edges_maintaining_digraph(edges) has returned; cu is the list edges
StreamReturned == pc = "done" /\ op = "add_edges_maintaining_digraph"

\* the set S of undirected edges as a bag
SetBag(S) == [e \in Pairs |-> IF e \in S THEN 1 ELSE 0]

\* the rank of the edge set E in the (k, l)-sparsity matroid: the size of a
\* largest (k, l)-sparse subset
Rank(E, k, l) ==
    CHOOSE n \in 0 .. Cardinality(E) :
        /\ \E S \in SUBSET E : Cardinality(S) = n /\ KLSparse(SetBag(S), k, l)
        /\ \A S \in SUBSET E : KLSparse(SetBag(S), k, l) => Cardinality(S) <= n

\* the permutations of 1 .. n
Permutation(n) ==
    {p \in [1 .. n -> 1 .. n] : \A i, j \in 1 .. n : p[i] = p[j] => i = j}

\* the bag of edges that a new PebbleDiGraph(K, L) accepts from the list
AcceptedFrom(edges) ==
    run_add_edges(EmptyDiGraph, KV, LV, edges, 1, EmptyBag).accepted

\* C22: the number of edges that add_edges_maintaining_digraph accepts from a
\* list of distinct undirected edges on a new PebbleDiGraph(K, L) is the
\* (K, L)-matroid rank of the edge set, and it is the number accepted from
\* every permutation of the list.
C22_RankInAnyOrder ==
    StreamReturned =>
        /\ BagSize(accepted, Pairs)
              = Rank({e \in Pairs : fed[e] > 0}, KV, LV)
        /\ \A p \in Permutation(Len(cu)) :
              BagSize(AcceptedFrom([i \in 1 .. Len(cu) |-> cu[p[i]]]), Pairs)
                  = BagSize(accepted, Pairs)

\* a list of three edges of which one was rejected, and of which another
\* order gets a different set of edges accepted
C22_Witness ==
    /\ StreamReturned
    /\ Len(cu) >= 3
    /\ BagSize(accepted, Pairs) < Len(cu)
    /\ \E p \in Permutation(Len(cu)) :
          AcceptedFrom([i \in 1 .. Len(cu) |-> cu[p[i]]]) # accepted

\* C23: when is_k_redundantly_rigid(k) or is_k_vertex_redundantly_rigid(k)
\* has returned True for a graph, k >= 0, is_rigid() returns True for it,
\* also when k is larger than the number of edges, respectively vertices.
C23_RedundantImpliesRigid ==
    (/\ query.op \in {"is_k_redundantly_rigid", "is_k_vertex_redundantly_rigid"}
     /\ query.tag = "bool"
     /\ query.value) => is_rigid(G)

\* C24: contract(graph, u, x) followed by restore with the neighbour sets
\* contract returned gives back the vertex set and the edge set, for every
\* loop-free graph and every adjacent pair u, x; in _process the graph after
\* a discarded candidate is the graph from before its contraction, and
\* restore never asks networkx to remove an edge that is not there.
C24_RestoreUndoesContract ==
    /\ \A u, x \in G.nodes :
          {u, x} \in G.edges =>
              LET c == contract(G, u, x) IN
              /\ ~remove_edges_raises(c.graph, u,
                                      (c.x_neigh \ c.u_neigh) \ {u})
              /\ restore(c.graph, u, x, c.u_neigh, c.x_neigh) = G
    /\ frame.ret.exc # "NetworkXError"
    /\ (frame.restored # {}
        /\ (frame.pc = "candidates" \/ frame.ret.exc = "RuntimeError"))
           => G = frame.before

\* a candidate was discarded whose contraction had given u an edge it did
\* not have, next to a neighbour that u and x shared
C24_Witness ==
    /\ frame.pc = "candidates"
    /\ frame.restored # {}
    /\ (frame.x_neigh \ frame.u_neigh) \ {Val(frame.u)} # {}
    /\ frame.x_neigh \cap frame.u_neigh # {}
    /\ frame.before # contract(frame.before, Val(frame.u), Val(frame.x)).graph
    /\ G = frame.before

\* a call of one of the two functions has returned a StableCut
CutReturned == frame.pc = "returned" /\ frame.ret.tag = "StableCut"

\* C25: a StableCut (a, b, cut) returned by stable_cut_in_flexible_graph or
\* stable_cut_in_flexible_graph_fast for the graph G covers G: a \cup b is
\* the vertex set of G and a \cap b = cut, also when G is disconnected and
\* when vertices were contracted during the search.
C25_CutCoversInput ==
    CutReturned =>
        /\ frame.ret.a \cup frame.ret.b = frame.input.nodes
        /\ frame.ret.a \cap frame.ret.b = frame.ret.cut

====
